---- MODULE Spec2Model ----
(***************************************************************************)
(* Model of the building-aggregation-tool native bridges:                  *)
(*   - rust/geo_util/src/convert/rustgeo_to_geos.rs : conversion of        *)
(*     geo_types values to GEOS geometries (coordinate sequences, points,  *)
(*     multipoints, lines, rings, polygons, multipolygons);                *)
(*   - rust/gdal/src/spatial_ref/srs.rs : SpatialRef and CoordTransform    *)
(*     wrappers over the OGR spatial-reference engine.                     *)
(*   - rust/gdal/src/config.rs : the engine's configuration options.       *)
(* The native engines are external: every native call is logged, and its   *)
(* outcome is an input of the operation.                                   *)
(***************************************************************************)
EXTENDS Integers, Sequences, FiniteSets, TLC

(***************************************************************************)
(* Bounds of the model.                                                    *)
(***************************************************************************)
MaxRingLen == 4
MaxInteriors == 2
MaxPolygons == 2
MaxPoints == 2
MaxFault == 12

(***************************************************************************)
(* f64 values and coordinates.  f64 equality is IEEE equality: NaN is not   *)
(* equal to itself.                                                        *)
(***************************************************************************)
Num(n) == <<"num", n>>
NaN == <<"nan", 0>>
F64Eq(a, b) == a[1] = "num" /\ b[1] = "num" /\ a[2] = b[2]

Coord(x, y) == [x |-> x, y |-> y]
\* #[derive(PartialEq)] on geo_types::Coordinate: field-wise f64 equality
CoordEq(p, q) == F64Eq(p.x, q.x) /\ F64Eq(p.y, q.y)

P0 == Coord(Num(0), Num(0))
P1 == Coord(Num(0), Num(1))
P2 == Coord(Num(1), Num(1))
PN == Coord(NaN, Num(0))
Points == {P0, P1, P2, PN}

Unset == <<"unset", 0>>

(***************************************************************************)
(* The engine state threaded through one conversion: the log of events,    *)
(* the number of native calls made so far, the index of the native call    *)
(* that the engine fails (0: none), and whether points[0] was indexed.     *)
(* owned is the stack of the native objects the conversion holds, newest    *)
(* last: each with the number of the native call that created it and the    *)
(* objects it is made of; released lists the objects released, in order.    *)
(***************************************************************************)
EngineInit(fault) ==
    [trace |-> <<>>, ncalls |-> 0, fault |-> fault, indexed0 |-> FALSE,
     owned |-> <<>>, released |-> <<>>]

\* the next native call is the one the engine fails
Fails(e) == e.ncalls + 1 = e.fault

\* record a native call and its outcome
Native(e, op, arg, ok) ==
    [e EXCEPT !.trace = Append(@, [op |-> op, arg |-> arg, ok |-> ok,
                                   native |-> TRUE]),
              !.ncalls = @ + 1]

\* the objects of a set, as a sequence in ascending order
RECURSIVE Ascending(_)
Ascending(S) ==
    IF S = {} THEN <<>>
    ELSE LET least == CHOOSE a \in S : \A b \in S : a <= b
         IN  <<least>> \o Ascending(S \ {least})

\* the n newest objects held, and what they are made of
Newest(e, n) == SubSeq(e.owned, Len(e.owned) - n + 1, Len(e.owned))
PartsOf(held) == UNION {held[k].parts : k \in 1..Len(held)}
Older(e, n) == SubSeq(e.owned, 1, Len(e.owned) - n)

\* the last native call created an object out of the n newest objects held
Own(e, n) ==
    [e EXCEPT !.owned = Append(Older(e, n),
                  [id |-> e.ncalls, parts |-> {e.ncalls} \cup PartsOf(Newest(e, n))])]

\* Drop for CoordSeq and Geometry: the n newest objects held are destroyed,
\* each with everything it is made of
Destroy(e, n) ==
    [e EXCEPT !.owned = Older(e, n),
              !.released = @ \o Ascending(PartsOf(Newest(e, n)))]

\* record a step of the wrapper itself (no native call)
Note(e, op, arg, ok) ==
    [e EXCEPT !.trace = Append(@, [op |-> op, arg |-> arg, ok |-> ok,
                                   native |-> FALSE])]

Ok(e, v) == [e |-> e, status |-> "ok", value |-> v, err |-> "none"]
Err(e, kind) == [e |-> e, status |-> "err", value |-> <<>>, err |-> kind]
Panic(e, msg) == [e |-> e, status |-> "panic", value |-> <<>>, err |-> msg]

\* the `?` operator: continue with the value of an Ok, return anything else
Try(r, K(_)) == IF r.status = "ok" THEN K(r) ELSE r

\* Result::expect: an Err panics with the message
Expect(r, msg) == IF r.status = "err" THEN Panic(r.e, msg) ELSE r

\* a frame that forgets its locals when it is left early
Unwind_forget(r, n) ==
    IF r.status = "ok" THEN r ELSE [r EXCEPT !.e.owned = Older(r.e, n)]

\* leaving a frame early (`?`, or a panic unwinding): the n locals that hold
\* native objects are dropped
Unwind(r, n) ==
    IF r.status = "ok" THEN r ELSE [r EXCEPT !.e = Destroy(r.e, n)]

(***************************************************************************)
(* CoordSeq of the geos crate (crate::CoordSeq).                           *)
(***************************************************************************)
\* CoordSeq::new(size, CoordDimensions::TwoD): a sequence of `size` unassigned points
CoordSeq_new(e, size) ==
    IF Fails(e)
    THEN Err(Native(e, "CoordSeq::new", size, FALSE), "GenericError")
    ELSE Ok(Own(Native(e, "CoordSeq::new", size, TRUE), 0),
            [i \in 1..size |-> Coord(Unset, Unset)])

\* CoordSeq::set_x(line, val): rejected by the engine outside the declared length
CoordSeq_set_x(e, seq, i, v) ==
    IF ~Fails(e) /\ i < Len(seq)
    THEN Ok(Native(e, "set_x", <<i, v>>, TRUE), [seq EXCEPT ![i + 1].x = v])
    ELSE Err(Native(e, "set_x", <<i, v>>, FALSE), "GeosError")

CoordSeq_set_y(e, seq, i, v) ==
    IF ~Fails(e) /\ i < Len(seq)
    THEN Ok(Native(e, "set_y", <<i, v>>, TRUE), [seq EXCEPT ![i + 1].y = v])
    ELSE Err(Native(e, "set_y", <<i, v>>, FALSE), "GeosError")

\* the native geometry constructors of crate::Geometry take their n
\* arguments by value: the geometry made owns them, and a constructor that
\* fails destroys them
Geometry_create(e, op, arg, n, geom) ==
    IF Fails(e)
    THEN Err(Destroy(Native(e, op, arg, FALSE), n), "NoConstructionFromNullPtr")
    ELSE Ok(Own(Native(e, op, arg, TRUE), n), geom)

create_point(e, seq) ==
    Geometry_create(e, "create_point", seq, 1, [kind |-> "Point", coords |-> seq])

create_multipoint(e, points) ==
    Geometry_create(e, "create_multipoint", points, Len(points),
                    [kind |-> "MultiPoint", points |-> points])

create_line_string(e, seq) ==
    Geometry_create(e, "create_line_string", seq, 1,
                    [kind |-> "LineString", coords |-> seq])

create_linear_ring(e, seq) ==
    Geometry_create(e, "create_linear_ring", seq, 1,
                    [kind |-> "LinearRing", coords |-> seq])

create_polygon(e, exterior, interiors) ==
    Geometry_create(e, "create_polygon", <<exterior, interiors>>,
                    1 + Len(interiors),
                    [kind |-> "Polygon", exterior |-> exterior,
                     interiors |-> interiors])

create_multipolygon(e, polygons) ==
    Geometry_create(e, "create_multipolygon", polygons, Len(polygons),
                    [kind |-> "MultiPolygon", polygons |-> polygons])

(***************************************************************************)
(* create_coord_seq(points, len)                                           *)
(***************************************************************************)
\* the loop `for (i, p) in points.enumerate()`, from index i on
RECURSIVE create_coord_seq_loop(_, _, _, _)
create_coord_seq_loop(e, points, i, seq) ==
    IF i >= Len(points) THEN Ok(e, seq)
    ELSE Try(CoordSeq_set_x(e, seq, i, points[i + 1].x), LAMBDA rx :
         Try(CoordSeq_set_y(rx.e, rx.value, i, points[i + 1].y), LAMBDA ry :
         create_coord_seq_loop(ry.e, points, i + 1, ry.value)))

\* `len as u32` keeps every length the model reaches (all are below 2^32)
create_coord_seq(e, points, len) ==
    Try(Expect(CoordSeq_new(e, len), "failed to create CoordSeq"), LAMBDA made :
    Unwind(create_coord_seq_loop(made.e, points, 0, made.value), 1))

create_coord_seq_from_vec(e, coords) == create_coord_seq(e, coords, Len(coords))

\* TryFrom<&Point<f64>>
Point_try_from(e, p) ==
    Try(create_coord_seq(e, <<p>>, 1), LAMBDA coord_seq :
    create_point(coord_seq.e, coord_seq.value))

\* TryFrom<&[T]> where T: Borrow<Point<f64>>: the points are converted in
\* order and collected; the first failure ends the collection
RECURSIVE collect_points(_, _, _, _)
collect_points(e, other, k, acc) ==
    IF k > Len(other) THEN Ok(e, acc)
    ELSE Try(Unwind(Point_try_from(e, other[k]), Len(acc)), LAMBDA p :
         collect_points(p.e, other, k + 1, Append(acc, p.value)))

MultiPoint_try_from(e, other) ==
    Try(collect_points(e, other, 1, <<>>), LAMBDA geom_points :
    create_multipoint(geom_points.e, geom_points.value))

\* TryFrom<&LineString<f64>>
LineString_try_from(e, ls) ==
    Try(create_coord_seq_from_vec(e, ls), LAMBDA coord_seq :
    create_line_string(coord_seq.e, coord_seq.value))

(***************************************************************************)
(* TryFrom<LineRing>: the ring closure.                                    *)
(***************************************************************************)
is_closed(points) ==
    Len(points) > 0 /\ CoordEq(points[1], points[Len(points)])

\* a closure test that forgets the closed 3-point ring
need_closing_unclosed_only(points) ==
    Len(points) > 0 /\ ~is_closed(points)

need_closing(points) ==
    Len(points) > 0 /\ (~is_closed(points) \/ Len(points) = 3)

\* `&points[0]`: indexing an empty vector panics
IndexFirst(e, points) ==
    IF Len(points) = 0
    THEN Panic([e EXCEPT !.indexed0 = TRUE], "index out of bounds")
    ELSE Ok([e EXCEPT !.indexed0 = TRUE], points[1])

\* a closure that declares the length of the ring as given
closed_coord_seq_undeclared_closing(e, points) ==
    Try(IndexFirst(e, points), LAMBDA first :
    create_coord_seq(first.e, Append(points, first.value), Len(points)))

\* points.iter().chain(std::iter::once(&points[0])), nb_points + 1
closed_coord_seq(e, points) ==
    Try(IndexFirst(e, points), LAMBDA first :
    create_coord_seq(first.e, Append(points, first.value), Len(points) + 1))

\* a closure that does not ask whether the ring has points
ring_coord_seq_unguarded(e, points) ==
    IF ~is_closed(points) \/ Len(points) = 3
    THEN closed_coord_seq(e, points)
    ELSE create_coord_seq(e, points, Len(points))

ring_coord_seq(e, points) ==
    IF need_closing(points)
    THEN closed_coord_seq(e, points)
    ELSE create_coord_seq(e, points, Len(points))

\* a length check made on the ring as closed, after the closure repair
LineRing_body_check_after_closing(e, points) ==
    IF Len(points) > 0
       /\ (IF need_closing(points) THEN Len(points) + 1 ELSE Len(points)) < 3
    THEN Err(e, "InvalidGeometry")
    ELSE Try(ring_coord_seq(e, points), LAMBDA coord_seq :
         create_linear_ring(coord_seq.e, coord_seq.value))

LineRing_body(e, points) ==
    IF Len(points) > 0 /\ Len(points) < 3
    THEN Err(e, "InvalidGeometry")
    ELSE Try(ring_coord_seq(e, points), LAMBDA coord_seq :
         create_linear_ring(coord_seq.e, coord_seq.value))

\* the end of one conversion in the log: its error and whether it succeeded
Exit(r, op) == [r EXCEPT !.e = Note(r.e, op, r.err, r.status = "ok")]

\* the conversion of one ring, bracketed in the log
LineRing_try_from(e, points) ==
    Exit(LineRing_body(Note(e, "ring_enter", points, TRUE), points), "ring_exit")

(***************************************************************************)
(* TryFrom<&Polygon<f64>>                                                  *)
(***************************************************************************)
\* interiors().iter().map(|i| LineRing(i).try_into()).collect::<Result<Vec<_>, _>>()
\* a collect that drops a failed ring and goes on with the next
RECURSIVE collect_rings_skip_failed(_, _, _, _)
collect_rings_skip_failed(e, rings, k, acc) ==
    IF k > Len(rings) THEN Ok(e, acc)
    ELSE LET r == LineRing_try_from(e, rings[k]) IN
         collect_rings_skip_failed(r.e, rings, k + 1,
             IF r.status = "ok" THEN Append(acc, r.value) ELSE acc)

RECURSIVE collect_rings(_, _, _, _)
collect_rings(e, rings, k, acc) ==
    IF k > Len(rings) THEN Ok(e, acc)
    ELSE Try(Unwind(LineRing_try_from(e, rings[k]), Len(acc)), LAMBDA r :
         collect_rings(r.e, rings, k + 1, Append(acc, r.value)))

Polygon_body(e, poly) ==
    Try(LineRing_try_from(e, poly.exterior), LAMBDA geom_exterior :
    Try(Unwind(collect_rings(geom_exterior.e, poly.interiors, 1, <<>>), 1),
        LAMBDA interiors :
    create_polygon(interiors.e, geom_exterior.value, interiors.value)))

Polygon_try_from(e, poly) ==
    Exit(Polygon_body(Note(e, "polygon_enter", poly, TRUE), poly), "polygon_exit")

(***************************************************************************)
(* TryFrom<&MultiPolygon<f64>>                                             *)
(***************************************************************************)
\* a collect that drops a failed member and goes on with the next
RECURSIVE collect_polygons_skip_failed(_, _, _, _)
collect_polygons_skip_failed(e, polys, k, acc) ==
    IF k > Len(polys) THEN Ok(e, acc)
    ELSE LET r == Polygon_try_from(e, polys[k]) IN
         collect_polygons_skip_failed(r.e, polys, k + 1,
             IF r.status = "ok" THEN Append(acc, r.value) ELSE acc)

RECURSIVE collect_polygons(_, _, _, _)
collect_polygons(e, polys, k, acc) ==
    IF k > Len(polys) THEN Ok(e, acc)
    ELSE Try(Unwind(Polygon_try_from(e, polys[k]), Len(acc)), LAMBDA r :
         collect_polygons(r.e, polys, k + 1, Append(acc, r.value)))

MultiPolygon_try_from(e, mp) ==
    Try(collect_polygons(e, mp, 1, <<>>), LAMBDA polygons :
    create_multipolygon(polygons.e, polygons.value))

(***************************************************************************)
(* The spatial-reference engine (OGR) as srs.rs uses it.                   *)
(*                                                                         *)
(* A world is the engine's memory: heap[p] is the native object at         *)
(* pointer p, next the pointer the next allocation returns.  Pointer 0 is  *)
(* null.  A released object stays in the heap, emptied, with live = FALSE. *)
(***************************************************************************)
MaxObjs == 3
MaxRefs == 2
MaxCts == 1

NullPtr == 0

\* C strings: a null pointer, or the bytes before the terminating NUL
NullStr == [null |-> TRUE, s |-> <<>>]
Str(s) == [null |-> FALSE, s |-> s]

NUL == "\\0"
HasNul(text) == \E i \in 1..Len(text) : text[i] = NUL

Digits == <<"0", "1", "2", "3", "4", "5", "6", "7", "8", "9">>

\* the decimal text of a natural number
RECURSIVE Decimal(_)
Decimal(n) ==
    IF n < 10 THEN <<Digits[n + 1]>>
    ELSE Decimal(n \div 10) \o <<Digits[(n % 10) + 1]>>

S_EPSG == <<"E", "P", "S", "G">>

\* what the engine holds for one reference system: its authority name and
\* code (null when it carries no authority tag), its proj4 export (null when
\* the export fails) and the EPSG code it can be identified as (0: none)
NoAxis == "none"
AuthorityCompliant == "OAMS_AUTHORITY_COMPLIANT"
TraditionalGisOrder == "OAMS_TRADITIONAL_GIS_ORDER"

EpsgDef(c) ==
    [name |-> Str(S_EPSG), code |-> Str(Decimal(c)),
     proj4 |-> Str(<<"+">> \o Decimal(c)), ident |-> 0]
UtmDef ==
    [name |-> NullStr, code |-> NullStr, proj4 |-> Str(<<"+", "u">>),
     ident |-> 32632]
EmptyDef ==
    [name |-> NullStr, code |-> NullStr, proj4 |-> NullStr, ident |-> 0]
BadCodeDef ==
    [name |-> Str(S_EPSG), code |-> Str(<<"4", "x">>),
     proj4 |-> Str(<<"+", "b">>), ident |-> 0]

\* the texts the callers pass, and what the engine makes of them
T_WGS84 == <<"W">>
T_UTM == <<"U">>
T_BADCODE == <<"B">>
T_GARBAGE == <<"?">>
T_NUL == <<"W", NUL>>
Texts == {T_WGS84, T_UTM, T_BADCODE, T_GARBAGE, T_NUL}

EngineParses(text) == text \in {T_WGS84, T_UTM, T_BADCODE}
EngineParse(text) ==
    CASE text = T_WGS84 -> EpsgDef(4326)
      [] text = T_UTM -> UtmDef
      [] OTHER -> BadCodeDef

KnownEpsg == {4326, 32632}

\* u32 authority codes, as 16-bit halves
U16 == 65536
U32Of(n) == [hi |-> n \div U16, lo |-> n % U16]
\* a conversion that keeps the low 16 bits only
as_c_int_low_half(u) == u.lo

\* `epsg_code as c_int`: the same 32 bits read as a signed integer
as_c_int(u) ==
    IF u.hi >= 32768 THEN (u.hi - U16) * U16 + u.lo ELSE u.hi * U16 + u.lo

\* 4326, 32632, a code the engine does not know, 2^32 - 4326 and 2^16 + 4326
EpsgCodes ==
    {U32Of(4326), U32Of(32632), U32Of(9999), [hi |-> 65535, lo |-> 61210],
     [hi |-> 1, lo |-> 4326]}

\* releases: how many times the object was handed to its release call
SrsObj(def) ==
    [kind |-> "srs", live |-> TRUE, def |-> def, axis |-> AuthorityCompliant,
     esri |-> FALSE, releases |-> 0]
CtObj ==
    [kind |-> "ct", live |-> TRUE, def |-> EmptyDef, axis |-> NoAxis,
     esri |-> FALSE, releases |-> 0]
FreeObj ==
    [kind |-> "free", live |-> FALSE, def |-> EmptyDef, axis |-> NoAxis,
     esri |-> FALSE, releases |-> 0]

World(h, n) == [heap |-> h, next |-> n]

\* the engine allocates an object, or returns null when the allocation fails
Alloc(w, obj, allocOk) ==
    IF allocOk
    THEN Ok([w EXCEPT !.heap[w.next] = obj, !.next = @ + 1], w.next)
    ELSE Ok(w, NullPtr)

IsLive(w, p, kind) == p # NullPtr /\ w.heap[p].live /\ w.heap[p].kind = kind

\* OSRNewSpatialReference(wkt): with a text, null when its import fails
OSRNewSpatialReference(w, wkt, allocOk) ==
    IF wkt.null THEN Alloc(w, SrsObj(EmptyDef), allocOk)
    ELSE IF EngineParses(wkt.s) THEN Alloc(w, SrsObj(EngineParse(wkt.s)), allocOk)
    ELSE Ok(w, NullPtr)

OGRERR_NONE == "OGRERR_NONE"
OGRERR_FAILURE == "OGRERR_FAILURE"
OGRERR_UNSUPPORTED_SRS == "OGRERR_UNSUPPORTED_SRS"

\* the text imports: a null handle is refused, an unreadable text fails
OSRImportText(w, p, text) ==
    IF IsLive(w, p, "srs") /\ EngineParses(text)
    THEN Ok([w EXCEPT !.heap[p].def = EngineParse(text)], OGRERR_NONE)
    ELSE Ok(w, OGRERR_FAILURE)

OSRSetFromUserInput(w, p, text) == OSRImportText(w, p, text)
OSRImportFromProj4(w, p, text) == OSRImportText(w, p, text)
OSRImportFromESRI(w, p, text) == OSRImportText(w, p, text)

OSRImportFromEPSG(w, p, code) ==
    IF IsLive(w, p, "srs") /\ code \in KnownEpsg
    THEN Ok([w EXCEPT !.heap[p].def = EpsgDef(code)], OGRERR_NONE)
    ELSE Ok(w, OGRERR_FAILURE)

\* OSRClone: a copy of the object (definition, dialect and axis mapping), or
\* null
OSRClone(w, p, allocOk) ==
    IF IsLive(w, p, "srs")
    THEN Alloc(w, [SrsObj(w.heap[p].def) EXCEPT !.axis = w.heap[p].axis,
                                                !.esri = w.heap[p].esri], allocOk)
    ELSE Ok(w, NullPtr)

\* OSRRelease / OCTDestroyCoordinateTransformation: null is ignored; the
\* memory of a released object holds nothing any more
Released(obj) == [FreeObj EXCEPT !.kind = obj.kind, !.releases = obj.releases + 1]
Release(w, p) ==
    IF p = NullPtr THEN w ELSE [w EXCEPT !.heap[p] = Released(@)]

OSRSetAxisMappingStrategy(w, p, strategy) ==
    IF IsLive(w, p, "srs") THEN [w EXCEPT !.heap[p].axis = strategy] ELSE w

OSRGetAuthorityName(w, p) == IF IsLive(w, p, "srs") THEN w.heap[p].def.name ELSE NullStr
OSRGetAuthorityCode(w, p) == IF IsLive(w, p, "srs") THEN w.heap[p].def.code ELSE NullStr
OSRExportToProj4(w, p) == IF IsLive(w, p, "srs") THEN w.heap[p].def.proj4 ELSE NullStr

\* the text of a definition: its dialect, its authority tag and its
\* parameters
DefinitionText(obj) ==
    (IF obj.esri THEN <<"E">> ELSE <<"O">>) \o obj.def.name.s \o obj.def.code.s
        \o obj.def.proj4.s

\* the exports: a status and the text written through the out-pointer
Exported(rv, text) == [rv |-> rv, text |-> text]
OSRExportToWkt(w, p) ==
    IF IsLive(w, p, "srs")
    THEN Exported(OGRERR_NONE, Str(<<"w">> \o DefinitionText(w.heap[p])))
    ELSE Exported(OGRERR_FAILURE, NullStr)
OSRExportToPrettyWkt(w, p) ==
    IF IsLive(w, p, "srs")
    THEN Exported(OGRERR_NONE, Str(<<"p">> \o DefinitionText(w.heap[p])))
    ELSE Exported(OGRERR_FAILURE, NullStr)
\* the XML export knows no system without parameters
OSRExportToXML(w, p) ==
    IF ~IsLive(w, p, "srs") THEN Exported(OGRERR_FAILURE, NullStr)
    ELSE IF w.heap[p].def.proj4.null THEN Exported(OGRERR_UNSUPPORTED_SRS, NullStr)
    ELSE Exported(OGRERR_NONE, Str(<<"x">> \o DefinitionText(w.heap[p])))

\* OSRMorphToESRI: rewrites the object, in place, into the ESRI dialect
OSRMorphToESRI(w, p) ==
    IF IsLive(w, p, "srs")
    THEN Ok([w EXCEPT !.heap[p].esri = TRUE], OGRERR_NONE)
    ELSE Ok(w, OGRERR_FAILURE)

\* OSRIsSame: 1 when the two systems have the same definition and the same
\* data-axis mapping, 0 otherwise and on a null handle
OSRIsSame(w, p1, p2) ==
    IF IsLive(w, p1, "srs") /\ IsLive(w, p2, "srs")
       /\ w.heap[p1].def = w.heap[p2].def /\ w.heap[p1].axis = w.heap[p2].axis
    THEN 1 ELSE 0

\* OSRGetAxisMappingStrategy: the strategy set last; OAMS_CUSTOM on a null handle
OAMS_CUSTOM == "OAMS_CUSTOM"
OSRGetAxisMappingStrategy(w, p) ==
    IF IsLive(w, p, "srs") THEN w.heap[p].axis ELSE OAMS_CUSTOM

\* OSRAutoIdentifyEPSG: tags the system with the EPSG code its definition
\* matches; a system that matches none is left as it is
OSRAutoIdentifyEPSG(w, p) ==
    IF ~IsLive(w, p, "srs") THEN Ok(w, OGRERR_FAILURE)
    ELSE IF w.heap[p].def.ident = 0 THEN Ok(w, OGRERR_UNSUPPORTED_SRS)
    ELSE Ok([w EXCEPT !.heap[p].def.name = Str(S_EPSG),
                      !.heap[p].def.code = Str(Decimal(w.heap[p].def.ident))],
            OGRERR_NONE)

\* OCTNewCoordinateTransformation: null when the engine finds no
\* transformation between the two systems (found: the engine's answer)
OCTNewCoordinateTransformation(w, p1, p2, found) ==
    IF IsLive(w, p1, "srs") /\ IsLive(w, p2, "srs")
    THEN Alloc(w, CtObj, found)
    ELSE Ok(w, NullPtr)

(***************************************************************************)
(* Errors (crate::errors, crate::utils).                                   *)
(***************************************************************************)
NoErr == [kind |-> "none", method |-> "", rv |-> ""]
NullPointer(method) == [kind |-> "NullPointer", method |-> method, rv |-> ""]
OgrError(rv, method) == [kind |-> "OgrError", method |-> method, rv |-> rv]
NulError == [kind |-> "NulError", method |-> "CString::new", rv |-> ""]
Utf8Error == [kind |-> "Utf8Error", method |-> "to_str", rv |-> ""]

_last_null_pointer_err(method) == NullPointer(method)

\* CString::new(text): refused when the text holds a NUL
CString_new(w, text) == IF HasNul(text) THEN Err(w, NulError) ELSE Ok(w, text)

\* Result::or_else(|_| f)
OrElse(r, K(_)) == IF r.status = "err" THEN K(r) ELSE r

(***************************************************************************)
(* SpatialRef                                                              *)
(***************************************************************************)
\* a SpatialRef value is its c_spatial_ref pointer
SpatialRef_set_axis_mapping_strategy(w, p, strategy) ==
    OSRSetAxisMappingStrategy(w, p, strategy)

\* a factory that returns the handle with the axis mapping the engine gave it
WithEngineOrder(w, c_obj) == Ok(w, c_obj)

\* the tail of from_wkt, from_epsg, from_proj4 and from_esri
WithTraditionalOrder(w, c_obj) ==
    Ok(SpatialRef_set_axis_mapping_strategy(w, c_obj, TraditionalGisOrder), c_obj)

SpatialRef_new(w, allocOk) ==
    Try(OSRNewSpatialReference(w, NullStr, allocOk), LAMBDA c_obj :
    IF c_obj.value = NullPtr
    THEN Err(c_obj.e, _last_null_pointer_err("OSRNewSpatialReference"))
    ELSE Ok(c_obj.e, c_obj.value))

SpatialRef_from_definition(w, definition, allocOk) ==
    Try(OSRNewSpatialReference(w, NullStr, allocOk), LAMBDA c_obj :
    IF c_obj.value = NullPtr
    THEN Err(c_obj.e, _last_null_pointer_err("OSRNewSpatialReference"))
    ELSE Try(CString_new(c_obj.e, definition), LAMBDA c_str :
         Try(OSRSetFromUserInput(c_str.e, c_obj.value, c_str.value), LAMBDA rv :
         IF rv.value # OGRERR_NONE
         THEN Err(rv.e, OgrError(rv.value, "OSRSetFromUserInput"))
         ELSE Ok(rv.e, c_obj.value))))

SpatialRef_from_wkt(w, wkt, allocOk) ==
    Try(CString_new(w, wkt), LAMBDA c_str :
    Try(OSRNewSpatialReference(c_str.e, Str(c_str.value), allocOk), LAMBDA c_obj :
    IF c_obj.value = NullPtr
    THEN Err(c_obj.e, _last_null_pointer_err("OSRNewSpatialReference"))
    ELSE WithTraditionalOrder(c_obj.e, c_obj.value)))

SpatialRef_from_epsg(w, epsg_code, allocOk) ==
    Try(OSRNewSpatialReference(w, NullStr, allocOk), LAMBDA c_obj :
    Try(OSRImportFromEPSG(c_obj.e, c_obj.value, as_c_int(epsg_code)), LAMBDA rv :
    IF rv.value # OGRERR_NONE
    THEN Err(rv.e, OgrError(rv.value, "OSRImportFromEPSG"))
    ELSE WithTraditionalOrder(rv.e, c_obj.value)))

SpatialRef_from_proj4(w, proj4_string, allocOk) ==
    Try(CString_new(w, proj4_string), LAMBDA c_str :
    Try(OSRNewSpatialReference(c_str.e, NullStr, allocOk), LAMBDA c_obj :
    Try(OSRImportFromProj4(c_obj.e, c_obj.value, c_str.value), LAMBDA rv :
    IF rv.value # OGRERR_NONE
    THEN Err(rv.e, OgrError(rv.value, "OSRImportFromProj4"))
    ELSE WithTraditionalOrder(rv.e, c_obj.value))))

SpatialRef_from_esri(w, esri_wkt, allocOk) ==
    Try(CString_new(w, esri_wkt), LAMBDA c_str :
    Try(OSRNewSpatialReference(c_str.e, NullStr, allocOk), LAMBDA c_obj :
    Try(OSRImportFromESRI(c_obj.e, c_obj.value, c_str.value), LAMBDA rv :
    IF rv.value # OGRERR_NONE
    THEN Err(rv.e, OgrError(rv.value, "OSRImportFromESRI"))
    ELSE WithTraditionalOrder(rv.e, c_obj.value))))

SpatialRef_from_c_obj(w, c_obj, allocOk) ==
    Try(OSRClone(w, c_obj, allocOk), LAMBDA mut_c_obj :
    IF mut_c_obj.value = NullPtr
    THEN Err(mut_c_obj.e, _last_null_pointer_err("OSRClone"))
    ELSE Ok(mut_c_obj.e, mut_c_obj.value))

\* impl Clone for SpatialRef: the pointer OSRClone returns, whatever it is
SpatialRef_clone(w, p, allocOk) == OSRClone(w, p, allocOk)

\* impl Drop for SpatialRef
SpatialRef_drop(w, p) == Release(w, p)

\* CStr::to_str: refused when the bytes are not UTF-8
BadByte == "\\xff"
to_str(w, cstr) ==
    IF \E i \in 1..Len(cstr.s) : cstr.s[i] = BadByte
    THEN Err(w, Utf8Error) ELSE Ok(w, cstr.s)

\* crate::utils::_string: the text of a C string
_string(cstr) == cstr.s

SpatialRef_to_proj4(w, p) ==
    IF OSRExportToProj4(w, p).null
    THEN Err(w, OgrError(OGRERR_FAILURE, "OSRExportToProj4"))
    ELSE Ok(w, _string(OSRExportToProj4(w, p)))

\* an authority built on the parsed code: it fails where the code is no integer
SpatialRef_authority_parsed_code(w, p) ==
    IF OSRGetAuthorityName(w, p).null
    THEN Err(w, _last_null_pointer_err("SRGetAuthorityName"))
    ELSE Try(to_str(w, OSRGetAuthorityName(w, p)), LAMBDA name :
         IF OSRGetAuthorityCode(w, p).null
         THEN Err(w, _last_null_pointer_err("OSRGetAuthorityCode"))
         ELSE Try(to_str(w, OSRGetAuthorityCode(w, p)), LAMBDA code :
              IF \E k \in 1..Len(code.value) :
                     code.value[k] \notin {"0", "1", "2", "3", "4", "5", "6", "7", "8", "9"}
              THEN Err(w, OgrError(OGRERR_UNSUPPORTED_SRS, "OSRGetAuthorityCode"))
              ELSE Ok(w, name.value \o <<":">> \o code.value)))

\* format!("{}:{}", name, code)
SpatialRef_authority(w, p) ==
    IF OSRGetAuthorityName(w, p).null
    THEN Err(w, _last_null_pointer_err("SRGetAuthorityName"))
    ELSE Try(to_str(w, OSRGetAuthorityName(w, p)), LAMBDA name :
         IF OSRGetAuthorityCode(w, p).null
         THEN Err(w, _last_null_pointer_err("OSRGetAuthorityCode"))
         ELSE Try(to_str(w, OSRGetAuthorityCode(w, p)), LAMBDA code :
              Ok(w, name.value \o <<":">> \o code.value)))

\* impl PartialEq for SpatialRef
SpatialRef_eq(w, p, other) == OSRIsSame(w, p, other) = 1

SpatialRef_auth_name(w, p) ==
    IF OSRGetAuthorityName(w, p).null
    THEN Err(w, _last_null_pointer_err("SRGetAuthorityName"))
    ELSE Ok(w, _string(OSRGetAuthorityName(w, p)))

\* i32::from_str: an optional sign, then one or more decimal digits whose
\* value fits 32 bits
IsDigit(c) == \E d \in 1..10 : Digits[d] = c
DigitVal(c) == (CHOOSE d \in 1..10 : Digits[d] = c) - 1

RECURSIVE StripZeros(_)
StripZeros(ds) ==
    IF Len(ds) > 1 /\ Head(ds) = "0" THEN StripZeros(Tail(ds)) ELSE ds

RECURSIVE DigitsValue(_)
DigitsValue(ds) ==
    IF ds = <<>> THEN 0
    ELSE DigitsValue(SubSeq(ds, 1, Len(ds) - 1)) * 10 + DigitVal(ds[Len(ds)])

ParseErr == [ok |-> FALSE, n |-> 0]
Parsed(n) == [ok |-> TRUE, n |-> n]

i32_from_str(src) ==
    LET signed == src # <<>> /\ Head(src) \in {"+", "-"}
        neg == src # <<>> /\ Head(src) = "-"
        body == IF signed THEN Tail(src) ELSE src
        ds == StripZeros(body)
        top == DigitsValue(SubSeq(ds, 1, 9))
        low == DigitVal(ds[10])
    IN  IF body = <<>> \/ \E i \in 1..Len(body) : ~IsDigit(body[i]) THEN ParseErr
        ELSE IF Len(ds) <= 9
             THEN Parsed(IF neg THEN 0 - DigitsValue(ds) ELSE DigitsValue(ds))
        ELSE IF Len(ds) > 10 \/ top > 214748364 THEN ParseErr
        ELSE IF top = 214748364 /\ low > (IF neg THEN 8 ELSE 7) THEN ParseErr
        ELSE Parsed(IF neg THEN (0 - top * 10) - low ELSE top * 10 + low)

\* an auth_code that answers 0 for a system without authority code
SpatialRef_auth_code_default_zero(w, p) ==
    IF OSRGetAuthorityCode(w, p).null
    THEN Ok(w, 0)
    ELSE Try(to_str(w, OSRGetAuthorityCode(w, p)), LAMBDA c_str :
         IF i32_from_str(c_str.value).ok
         THEN Ok(w, i32_from_str(c_str.value).n)
         ELSE Err(w, OgrError(OGRERR_UNSUPPORTED_SRS, "OSRGetAuthorityCode")))

SpatialRef_auth_code(w, p) ==
    IF OSRGetAuthorityCode(w, p).null
    THEN Err(w, _last_null_pointer_err("OSRGetAuthorityCode"))
    ELSE Try(to_str(w, OSRGetAuthorityCode(w, p)), LAMBDA c_str :
         IF i32_from_str(c_str.value).ok
         THEN Ok(w, i32_from_str(c_str.value).n)
         ELSE Err(w, OgrError(OGRERR_UNSUPPORTED_SRS, "OSRGetAuthorityCode")))

\* an auto_identify_epsg that does not look at the native status
SpatialRef_auto_identify_epsg_unchecked(w, p) ==
    Try(OSRAutoIdentifyEPSG(w, p), LAMBDA rv : Ok(rv.e, <<>>))

SpatialRef_auto_identify_epsg(w, p) ==
    Try(OSRAutoIdentifyEPSG(w, p), LAMBDA rv :
    IF rv.value # OGRERR_NONE
    THEN Err(rv.e, OgrError(rv.value, "OSRAutoIdentifyEPSG"))
    ELSE Ok(rv.e, <<>>))

SpatialRef_get_axis_mapping_strategy(w, p) == OSRGetAxisMappingStrategy(w, p)

SpatialRef_to_wkt(w, p) ==
    IF OSRExportToWkt(w, p).rv # OGRERR_NONE
    THEN Err(w, OgrError(OSRExportToWkt(w, p).rv, "OSRExportToWkt"))
    ELSE Ok(w, _string(OSRExportToWkt(w, p).text))

SpatialRef_morph_to_esri(w, p) ==
    Try(OSRMorphToESRI(w, p), LAMBDA rv :
    IF rv.value # OGRERR_NONE
    THEN Err(rv.e, OgrError(rv.value, "OSRMorphToESRI"))
    ELSE Ok(rv.e, <<>>))

SpatialRef_to_pretty_wkt(w, p) ==
    IF OSRExportToPrettyWkt(w, p).rv # OGRERR_NONE
    THEN Err(w, OgrError(OSRExportToPrettyWkt(w, p).rv, "OSRExportToPrettyWkt"))
    ELSE Ok(w, _string(OSRExportToPrettyWkt(w, p).text))

SpatialRef_to_xml(w, p) ==
    IF OSRExportToXML(w, p).rv # OGRERR_NONE
    THEN Err(w, OgrError(OSRExportToXML(w, p).rv, "OSRExportToXML"))
    ELSE Ok(w, _string(OSRExportToXML(w, p).text))

(***************************************************************************)
(* CoordTransform                                                          *)
(***************************************************************************)
\* an identity with no fallback to the proj4 export
Identity_authority_only(w, p) == SpatialRef_authority(w, p)

\* sp_ref.authority().or_else(|_| sp_ref.to_proj4())
Identity(w, p) ==
    OrElse(SpatialRef_authority(w, p), LAMBDA failed : SpatialRef_to_proj4(w, p))

CoordTransform_new(w, sp_ref1, sp_ref2, found) ==
    Try(OCTNewCoordinateTransformation(w, sp_ref1, sp_ref2, found), LAMBDA c_obj :
    IF c_obj.value = NullPtr
    THEN Err(c_obj.e, _last_null_pointer_err("OCTNewCoordinateTransformation"))
    ELSE Try(Identity(c_obj.e, sp_ref1), LAMBDA from :
         Try(Identity(c_obj.e, sp_ref2), LAMBDA to :
         Ok(c_obj.e, [inner |-> c_obj.value, from |-> from.value,
                      to |-> to.value]))))

\* impl Drop for CoordTransform
CoordTransform_drop(w, t) == Release(w, t.inner)

(***************************************************************************)
(* CoordTransform::transform_coords                                        *)
(***************************************************************************)
MaxCoords == 2
MaxMsgLen == 2

None == [some |-> FALSE, v |-> <<>>]
Some(v) == [some |-> TRUE, v |-> v]

\* char::is_whitespace, on the characters of the model
IsWhitespace(c) == c \in {" ", "\n"}

RECURSIVE trim_start(_)
trim_start(s) ==
    IF s # <<>> /\ IsWhitespace(Head(s)) THEN trim_start(Tail(s)) ELSE s

RECURSIVE trim_end(_)
trim_end(s) ==
    IF s # <<>> /\ IsWhitespace(s[Len(s)])
    THEN trim_end(SubSeq(s, 1, Len(s) - 1)) ELSE s

\* str::trim
trim(s) == trim_end(trim_start(s))

CE_Failure == "CE_Failure"

\* crate::utils::_last_cpl_err: the engine's last error, drained
_last_cpl_err(class, drained) ==
    [kind |-> "CplError", class |-> class, msg |-> drained]

InvalidCoordinateRange(from, to, msg) ==
    [kind |-> "InvalidCoordinateRange", from |-> from, to |-> to, msg |-> msg]

\* what transform_coords returns and what it handed to OCTTransform
NoCall == [made |-> FALSE, count |-> 0, x |-> 0, y |-> 0, z |-> 0]
NoTxErr == [kind |-> "none"]
TxOk(call) == [status |-> "ok", err |-> NoTxErr, call |-> call]
TxErr(err, call) == [status |-> "err", err |-> err, call |-> call]
TxPanic(msg) == [status |-> "panic", err |-> [kind |-> msg], call |-> NoCall]

\* OCTTransform(self.inner, nb_coords as c_int, x.as_mut_ptr(), y.as_mut_ptr(),
\* z.as_mut_ptr()): the count, and the lengths of the three buffers behind
\* the pointers
OCTTransform(count, x, y, z) ==
    [made |-> TRUE, count |-> count, x |-> x, y |-> y, z |-> z]

\* a failure with no message taken for a success
transform_failure_blank_is_ok(t, err, call) ==
    IF err.kind = "CplError" /\ trim(err.msg) = <<>>
    THEN TxOk(call)
    ELSE TxErr(InvalidCoordinateRange(t.from, t.to, Some(err.msg)), call)

\* a message tested for emptiness without trimming it
transform_failure_untrimmed(t, err, call) ==
    IF err.kind = "CplError"
    THEN TxErr(InvalidCoordinateRange(t.from, t.to,
                   IF err.msg = <<>> THEN None ELSE Some(err.msg)), call)
    ELSE TxErr(err, call)

\* the else branch of transform_coords: the error built from the drained message
transform_failure(t, err, call) ==
    IF err.kind = "CplError"
    THEN TxErr(InvalidCoordinateRange(t.from, t.to,
                   IF trim(err.msg) = <<>> THEN None ELSE Some(err.msg)), call)
    ELSE TxErr(err, call)

\* x, y, z: the lengths of the three slices; nativeOk: OCTTransform returned 1;
\* drained: the engine's last error message after the call
transform_coords(t, x, y, z, nativeOk, drained) ==
    IF x # y THEN TxPanic("assertion failed: nb_coords == y.len()")
    ELSE IF nativeOk THEN TxOk(OCTTransform(x, x, y, z))
    ELSE transform_failure(t, _last_cpl_err(CE_Failure, drained),
                           OCTTransform(x, x, y, z))

\* transform_point: one coordinate in buffers of length 1; the error of
\* transform_coords is returned
transform_point(t, nativeOk, drained) ==
    transform_coords(t, 1, 1, 1, nativeOk, drained)

\* Result::expect in transform_coord: an Err panics with the message
TxExpect(r, msg) ==
    IF r.status = "err" THEN [TxPanic(msg) EXCEPT !.call = r.call] ELSE r

\* transform_coord (deprecated): transform_coords, then expect
transform_coord(t, x, y, z, nativeOk, drained) ==
    TxExpect(transform_coords(t, x, y, z, nativeOk, drained),
             "Coordinate transform failed")

(***************************************************************************)
(* Inputs of the conversions.                                              *)
(***************************************************************************)
SeqsUpTo(S, n) == UNION {[1..k -> S] : k \in 0..n}

Rings == SeqsUpTo(Points, MaxRingLen)
MultiPoints == SeqsUpTo(Points, MaxPoints)

\* rings of the polygon inputs: empty, too short, closed with 3 points,
\* unclosed, closed
PolyRings == { <<>>, <<P0, P1>>, <<P0, P1, P0>>, <<P0, P1, P2>>,
               <<P0, P1, P2, P0>> }
Polygons ==
    [exterior : PolyRings, interiors : SeqsUpTo(PolyRings, MaxInteriors)]

MemberRings == { <<P0, P1>>, <<P0, P1, P0>>, <<P0, P1, P2, P0>> }
MemberPolygons ==
    [exterior : MemberRings, interiors : SeqsUpTo(MemberRings, 1)]
MultiPolygons == SeqsUpTo(MemberPolygons, MaxPolygons)

(***************************************************************************)
(* rust/gdal/src/config.rs: the process-wide configuration options of the  *)
(* engine.  The engine keeps the options set through CPLSetConfigOption    *)
(* and falls back on the environment of the process: "Options set by       *)
(* calling functions in this module override options set in environment    *)
(* variables."  The engine state is the option table, the environment and  *)
(* the native calls of the operation under way.                            *)
(***************************************************************************)
K_CACHEMAX == <<"C">>
K_TEST == <<"T">>
K_NUL == <<"f", NUL, "o">>
\* the keys a C string can name, the keys a caller can pass
CfgKeys == {K_CACHEMAX, K_TEST}
KeyTexts == CfgKeys \cup {K_NUL}

V_128 == <<"1">>
V_256 == <<"2">>
V_DEFAULT == <<"D">>
V_NUL == <<"i", NUL, "v">>
ValueTexts == {<<>>, V_128, V_256, V_NUL}
DefaultTexts == {<<>>, V_DEFAULT, V_NUL}
EnvTexts == {V_128, V_256}

\* CPLSetConfigOption(key, value): a null value removes the option
CPLSetConfigOption(c, key, val) ==
    Ok([c EXCEPT !.options[key] = val,
                 !.calls = Append(@, <<"CPLSetConfigOption", key, val>>)], <<>>)

\* CPLGetConfigOption(key, default): the option set, else the environment
\* variable of that name, else the default
CPLGetConfigOption(c, key, default) ==
    Ok([c EXCEPT !.calls = Append(@, <<"CPLGetConfigOption", key, default>>)],
       IF ~c.options[key].null THEN c.options[key]
       ELSE IF ~c.environ[key].null THEN c.environ[key]
       ELSE default)

\* a set_config_option that checks the key only: the value reaches the engine
\* cut at its first NUL
set_config_option_unchecked_value(c, key, value) ==
    Try(CString_new(c, key), LAMBDA c_key :
    Try(CPLSetConfigOption(c, c_key.value,
                           Str(SelectSeq(value, LAMBDA b : b # NUL))),
        LAMBDA rv : Ok(rv.e, <<>>)))

set_config_option(c, key, value) ==
    Try(CString_new(c, key), LAMBDA c_key :
    Try(CString_new(c, value), LAMBDA c_val :
    Try(CPLSetConfigOption(c, c_key.value, Str(c_val.value)), LAMBDA rv :
        Ok(rv.e, <<>>))))

get_config_option(c, key, default) ==
    Try(CString_new(c, key), LAMBDA c_key :
    Try(CString_new(c, default), LAMBDA c_default :
    Try(CPLGetConfigOption(c, c_key.value, Str(c_default.value)), LAMBDA rv :
        Ok(rv.e, _string(rv.value)))))

\* a clear_config_option that sets the empty text instead of removing
clear_config_option_empty_value(c, key) ==
    Try(CString_new(c, key), LAMBDA c_key :
    Try(CPLSetConfigOption(c, c_key.value, Str(<<>>)), LAMBDA rv :
        Ok(rv.e, <<>>)))

clear_config_option(c, key) ==
    Try(CString_new(c, key), LAMBDA c_key :
    Try(CPLSetConfigOption(c, c_key.value, NullStr), LAMBDA rv :
        Ok(rv.e, <<>>)))

VARIABLES geo, heap, next, refs, cts, last, tx, cfg

geoVars == <<geo>>
srsVars == <<heap, next, refs, cts, last>>
txVars == <<tx>>
cfgVars == <<cfg>>
vars == <<geo, heap, next, refs, cts, last, tx, cfg>>

\* a conversion the caller is about to make: the operation, its argument and
\* the native call the engine will fail (0: none)
Pending(op, input, fault) ==
    [op |-> op, input |-> input, fault |-> fault, status |-> "pending",
     value |-> <<>>, err |-> "none", trace |-> <<>>, indexed0 |-> FALSE,
     owned |-> <<>>, released |-> <<>>]

\* the outcome of one conversion, as the caller and the engine see it
Done(r) ==
    [geo EXCEPT !.status = r.status, !.value = r.value, !.err = r.err,
                !.trace = r.e.trace, !.indexed0 = r.e.indexed0,
                !.owned = r.e.owned, !.released = r.e.released]

GeoRequests ==
    {Pending("point", p, f) : p \in Points, f \in 0..MaxFault}
    \cup {Pending("multipoint", ps, f) : ps \in MultiPoints, f \in 0..MaxFault}
    \cup {Pending("linestring", ls, f) : ls \in Rings, f \in 0..MaxFault}
    \cup {Pending("ring", r, f) : r \in Rings, f \in 0..MaxFault}
    \cup {Pending("polygon", p, f) : p \in Polygons, f \in 0..MaxFault}
    \cup {Pending("multipolygon", mp, f) : mp \in MultiPolygons, f \in 0..MaxFault}

GeoIdle == [Pending("none", <<>>, 0) EXCEPT !.status = "idle"]

GeoInit == geo \in GeoRequests

\* one conversion per TryFrom of a reference; the TryFrom of the value calls
\* the one of the reference
ConvertPoint ==
    /\ geo.status = "pending" /\ geo.op = "point"
    /\ geo' = Done(Point_try_from(EngineInit(geo.fault), geo.input))
    /\ UNCHANGED <<srsVars, txVars, cfgVars>>

ConvertMultiPoint ==
    /\ geo.status = "pending" /\ geo.op = "multipoint"
    /\ geo' = Done(MultiPoint_try_from(EngineInit(geo.fault), geo.input))
    /\ UNCHANGED <<srsVars, txVars, cfgVars>>

ConvertLineString ==
    /\ geo.status = "pending" /\ geo.op = "linestring"
    /\ geo' = Done(LineString_try_from(EngineInit(geo.fault), geo.input))
    /\ UNCHANGED <<srsVars, txVars, cfgVars>>

ConvertRing ==
    /\ geo.status = "pending" /\ geo.op = "ring"
    /\ geo' = Done(LineRing_try_from(EngineInit(geo.fault), geo.input))
    /\ UNCHANGED <<srsVars, txVars, cfgVars>>

ConvertPolygon ==
    /\ geo.status = "pending" /\ geo.op = "polygon"
    /\ geo' = Done(Polygon_try_from(EngineInit(geo.fault), geo.input))
    /\ UNCHANGED <<srsVars, txVars, cfgVars>>

ConvertMultiPolygon ==
    /\ geo.status = "pending" /\ geo.op = "multipolygon"
    /\ geo' = Done(MultiPolygon_try_from(EngineInit(geo.fault), geo.input))
    /\ UNCHANGED <<srsVars, txVars, cfgVars>>

GeoNext ==
    \/ ConvertPoint
    \/ ConvertMultiPoint
    \/ ConvertLineString
    \/ ConvertRing
    \/ ConvertPolygon
    \/ ConvertMultiPolygon

(***************************************************************************)
(* The spatial references and transformers the calling code holds.          *)
(***************************************************************************)
NoRef == [live |-> FALSE, ptr |-> NullPtr]
NoCt == [live |-> FALSE, inner |-> NullPtr, from |-> <<>>, to |-> <<>>]
NoLast ==
    [op |-> "none", status |-> "none", err |-> NoErr, args |-> <<>>, allocd |-> 0,
     value |-> <<>>, frame |-> <<>>]

SrsInit ==
    /\ heap = [p \in 1..MaxObjs |-> FreeObj]
    /\ next = 1
    /\ refs = [i \in 1..MaxRefs |-> NoRef]
    /\ cts = [i \in 1..MaxCts |-> NoCt]
    /\ last = NoLast

W == World(heap, next)

\* the engine has room for k more objects
Room(k) == next + k - 1 <= MaxObjs

FreeRefs == {i \in 1..MaxRefs : ~refs[i].live}
LiveRefs == {i \in 1..MaxRefs : refs[i].live}
FreeCts == {i \in 1..MaxCts : ~cts[i].live}
LiveCts == {i \in 1..MaxCts : cts[i].live}
Lowest(S) == CHOOSE i \in S : \A j \in S : i <= j

\* what the caller got, and how many native objects the engine allocated
Outcome(op, r, args) ==
    [op |-> op, status |-> r.status,
     err |-> IF r.status = "err" THEN r.err ELSE NoErr, args |-> args,
     allocd |-> r.e.next - next, value |-> <<>>, frame |-> <<>>]

\* the SpatialRef in variable i wraps a live native reference system
Valid(i) == i \in LiveRefs /\ IsLive(W, refs[i].ptr, "srs")
\* what calling code can see of a SpatialRef on pointer p in the world w
ObservableIn(w, p) ==
    [authority |-> SpatialRef_authority(w, p).value,
     name |-> SpatialRef_auth_name(w, p).value,
     code |-> SpatialRef_auth_code(w, p).value,
     axis |-> SpatialRef_get_axis_mapping_strategy(w, p),
     wkt |-> SpatialRef_to_wkt(w, p).value]
\* what calling code can see of the SpatialRef in variable i
Observable(i) == ObservableIn(W, refs[i].ptr)
Seen(i) == [valid |-> Valid(i), observable |-> Observable(i)]

\* the SpatialRef in variable i as it is: its pointer and the native object
\* the pointer leads to
Snapshot(i) ==
    [ptr |-> refs[i].ptr,
     obj |-> IF refs[i].ptr = NullPtr THEN FreeObj ELSE heap[refs[i].ptr]]
\* what the SpatialRef of a snapshot showed when the snapshot was taken
Shown(s) ==
    LET w == World([p \in 1..MaxObjs |-> s.obj], next)
    IN  [valid |-> IsLive(w, s.ptr, "srs"), observable |-> ObservableIn(w, s.ptr)]
\* every handle in scope as it is before a call
Frame == [j \in LiveRefs |-> Snapshot(j)]
\* the other handles as they are before a call on the handle in variable i
Others(i) == [j \in LiveRefs \ {i} |-> Snapshot(j)]

\* the caller keeps the SpatialRef of an Ok in a free variable (last.value
\* names it)
Returned(op, r, args) ==
    /\ heap' = r.e.heap
    /\ next' = r.e.next
    /\ refs' = IF r.status = "ok"
               THEN [refs EXCEPT ![Lowest(FreeRefs)] = [live |-> TRUE, ptr |-> r.value]]
               ELSE refs
    /\ last' = [Outcome(op, r, args) EXCEPT
                    !.value = IF r.status = "ok" THEN <<Lowest(FreeRefs)>> ELSE <<>>,
                    !.frame = IF op = "clone" THEN Frame ELSE <<>>]
    /\ UNCHANGED <<cts, geoVars, txVars, cfgVars>>

New ==
    /\ FreeRefs # {} /\ Room(1)
    /\ \E allocOk \in BOOLEAN :
           Returned("new", SpatialRef_new(W, allocOk), <<>>)

FromDefinition ==
    /\ FreeRefs # {} /\ Room(1)
    /\ \E text \in Texts, allocOk \in BOOLEAN :
           Returned("from_definition",
                    SpatialRef_from_definition(W, text, allocOk), <<text>>)

FromWkt ==
    /\ FreeRefs # {} /\ Room(1)
    /\ \E text \in Texts, allocOk \in BOOLEAN :
           Returned("from_wkt", SpatialRef_from_wkt(W, text, allocOk), <<text>>)

FromEpsg ==
    /\ FreeRefs # {} /\ Room(1)
    /\ \E code \in EpsgCodes, allocOk \in BOOLEAN :
           Returned("from_epsg", SpatialRef_from_epsg(W, code, allocOk), <<code>>)

FromProj4 ==
    /\ FreeRefs # {} /\ Room(1)
    /\ \E text \in Texts, allocOk \in BOOLEAN :
           Returned("from_proj4", SpatialRef_from_proj4(W, text, allocOk), <<text>>)

FromEsri ==
    /\ FreeRefs # {} /\ Room(1)
    /\ \E text \in Texts, allocOk \in BOOLEAN :
           Returned("from_esri", SpatialRef_from_esri(W, text, allocOk), <<text>>)

\* from_c_obj on a handle of the engine: null, or the object of a live SpatialRef
FromCObj ==
    /\ FreeRefs # {} /\ Room(1)
    /\ \E c_obj \in {NullPtr} \cup {refs[i].ptr : i \in LiveRefs}, allocOk \in BOOLEAN :
           Returned("from_c_obj", SpatialRef_from_c_obj(W, c_obj, allocOk), <<c_obj>>)

Clone ==
    /\ FreeRefs # {} /\ Room(1)
    /\ \E i \in LiveRefs, allocOk \in BOOLEAN :
           Returned("clone", SpatialRef_clone(W, refs[i].ptr, allocOk), <<i>>)

DropSpatialRef ==
    \E i \in LiveRefs :
        /\ heap' = SpatialRef_drop(W, refs[i].ptr).heap
        /\ refs' = [refs EXCEPT ![i] = NoRef]
        /\ last' = [NoLast EXCEPT !.op = "drop", !.status = "ok", !.args = <<i>>,
                                  !.value = Others(i)]
        /\ UNCHANGED <<next, cts, geoVars, txVars, cfgVars>>

SetAxisMappingStrategy ==
    \E i \in LiveRefs, strategy \in {AuthorityCompliant, TraditionalGisOrder} :
        /\ heap' = SpatialRef_set_axis_mapping_strategy(W, refs[i].ptr, strategy).heap
        /\ last' = [NoLast EXCEPT !.op = "set_axis_mapping_strategy",
                                  !.status = "ok", !.args = <<i, strategy>>,
                                  !.value = Others(i)]
        /\ UNCHANGED <<next, refs, cts, geoVars, txVars, cfgVars>>

NewCoordTransform ==
    /\ FreeCts # {} /\ Room(1)
    /\ \E i \in LiveRefs, j \in LiveRefs, found \in BOOLEAN :
           LET r == CoordTransform_new(W, refs[i].ptr, refs[j].ptr, found) IN
           /\ heap' = r.e.heap
           /\ next' = r.e.next
           /\ cts' = IF r.status = "ok"
                     THEN [cts EXCEPT ![Lowest(FreeCts)] =
                              [live |-> TRUE, inner |-> r.value.inner,
                               from |-> r.value.from, to |-> r.value.to]]
                     ELSE cts
           /\ last' = [Outcome("CoordTransform::new", r,
                               <<refs[i].ptr, refs[j].ptr, found>>)
                           EXCEPT !.frame = Frame]
           /\ UNCHANGED <<refs, geoVars, txVars, cfgVars>>

DropCoordTransform ==
    \E i \in LiveCts :
        /\ heap' = CoordTransform_drop(W, cts[i]).heap
        /\ cts' = [cts EXCEPT ![i] = NoCt]
        /\ last' = [NoLast EXCEPT !.op = "drop_ct", !.status = "ok", !.args = <<i>>]
        /\ UNCHANGED <<next, refs, geoVars, txVars, cfgVars>>

\* a query or mutation of the SpatialRef in variable i: what it returned, and
\* the handles as they were before the call
Answered(op, i, r) ==
    /\ heap' = r.e.heap
    /\ next' = r.e.next
    /\ last' = [Outcome(op, r, <<i>>) EXCEPT
                    !.value = IF r.status = "ok" THEN r.value ELSE <<>>,
                    !.frame = Frame]
    /\ UNCHANGED <<refs, cts, geoVars, txVars, cfgVars>>

GetAxisMappingStrategy ==
    \E i \in LiveRefs :
        Answered("get_axis_mapping_strategy", i,
                 Ok(W, SpatialRef_get_axis_mapping_strategy(W, refs[i].ptr)))

Eq ==
    \E i \in LiveRefs, j \in LiveRefs :
        /\ last' = [NoLast EXCEPT !.op = "eq", !.status = "ok", !.args = <<i, j>>,
                                  !.value = SpatialRef_eq(W, refs[i].ptr, refs[j].ptr),
                                  !.frame = Frame]
        /\ UNCHANGED <<heap, next, refs, cts, geoVars, txVars, cfgVars>>

AuthName ==
    \E i \in LiveRefs :
        Answered("auth_name", i, SpatialRef_auth_name(W, refs[i].ptr))

AuthCode ==
    \E i \in LiveRefs :
        Answered("auth_code", i, SpatialRef_auth_code(W, refs[i].ptr))

Authority ==
    \E i \in LiveRefs :
        Answered("authority", i, SpatialRef_authority(W, refs[i].ptr))

AutoIdentifyEpsg ==
    \E i \in LiveRefs :
        Answered("auto_identify_epsg", i,
                 SpatialRef_auto_identify_epsg(W, refs[i].ptr))

ToWkt ==
    \E i \in LiveRefs :
        Answered("to_wkt", i, SpatialRef_to_wkt(W, refs[i].ptr))

ToPrettyWkt ==
    \E i \in LiveRefs :
        Answered("to_pretty_wkt", i, SpatialRef_to_pretty_wkt(W, refs[i].ptr))

ToXml ==
    \E i \in LiveRefs :
        Answered("to_xml", i, SpatialRef_to_xml(W, refs[i].ptr))

ToProj4 ==
    \E i \in LiveRefs :
        Answered("to_proj4", i, SpatialRef_to_proj4(W, refs[i].ptr))

MorphToEsri ==
    \E i \in LiveRefs :
        Answered("morph_to_esri", i, SpatialRef_morph_to_esri(W, refs[i].ptr))

SrsNext ==
    \/ New
    \/ FromDefinition
    \/ FromWkt
    \/ FromEpsg
    \/ FromProj4
    \/ FromEsri
    \/ FromCObj
    \/ Clone
    \/ DropSpatialRef
    \/ SetAxisMappingStrategy
    \/ GetAxisMappingStrategy
    \/ Eq
    \/ AuthName
    \/ AuthCode
    \/ Authority
    \/ AutoIdentifyEpsg
    \/ ToWkt
    \/ ToPrettyWkt
    \/ ToXml
    \/ ToProj4
    \/ MorphToEsri
    \/ NewCoordTransform
    \/ DropCoordTransform

(***************************************************************************)
(* Calls of transform_coords: the transformer, the three slices, and what   *)
(* the engine answers.                                                     *)
(***************************************************************************)
Identities == {S_EPSG \o <<":">> \o Decimal(4326), <<"+", "u">>}
Transformers == [inner : {1}, from : Identities, to : Identities]
Messages == SeqsUpTo({" ", "\n", "E"}, MaxMsgLen)

\* the entry points: transform_coords and transform_coord take three slices,
\* transform_point makes its own buffers of length 1
SliceEntries == {"transform_coords", "transform_coord"}
NoOuter == [status |-> "none", err |-> NoTxErr]
TxRequests ==
    [entry : SliceEntries, t : Transformers, x : 0..MaxCoords,
     y : 0..MaxCoords, z : 0..MaxCoords, nativeOk : BOOLEAN, drained : Messages,
     status : {"pending"}, err : {NoTxErr}, call : {NoCall}, outer : {NoOuter}]
    \cup [entry : {"transform_point"}, t : Transformers, x : {1}, y : {1},
          z : {1}, nativeOk : BOOLEAN, drained : Messages, status : {"pending"},
          err : {NoTxErr}, call : {NoCall}, outer : {NoOuter}]

TxIdle ==
    [t |-> [inner |-> NullPtr, from |-> <<>>, to |-> <<>>], x |-> 0, y |-> 0,
     z |-> 0, nativeOk |-> TRUE, drained |-> <<>>, status |-> "idle",
     err |-> NoTxErr, call |-> NoCall, entry |-> "none", outer |-> NoOuter]

TxInit == tx \in TxRequests

\* tx.status, tx.err and tx.call are what transform_coords returned and
\* handed to the engine; tx.outer is what the entry point called returned
Entered(inner, outer) ==
    tx' = [tx EXCEPT !.status = inner.status, !.err = inner.err,
                     !.call = inner.call,
                     !.outer = [status |-> outer.status, err |-> outer.err]]

TransformCoords ==
    /\ tx.status = "pending" /\ tx.entry = "transform_coords"
    /\ Entered(transform_coords(tx.t, tx.x, tx.y, tx.z, tx.nativeOk, tx.drained),
               transform_coords(tx.t, tx.x, tx.y, tx.z, tx.nativeOk, tx.drained))
    /\ UNCHANGED <<geoVars, srsVars, cfgVars>>

TransformPoint ==
    /\ tx.status = "pending" /\ tx.entry = "transform_point"
    /\ Entered(transform_coords(tx.t, 1, 1, 1, tx.nativeOk, tx.drained),
               transform_point(tx.t, tx.nativeOk, tx.drained))
    /\ UNCHANGED <<geoVars, srsVars, cfgVars>>

TransformCoord ==
    /\ tx.status = "pending" /\ tx.entry = "transform_coord"
    /\ Entered(transform_coords(tx.t, tx.x, tx.y, tx.z, tx.nativeOk, tx.drained),
               transform_coord(tx.t, tx.x, tx.y, tx.z, tx.nativeOk, tx.drained))
    /\ UNCHANGED <<geoVars, srsVars, cfgVars>>

TxNext == TransformCoords \/ TransformPoint \/ TransformCoord

(***************************************************************************)
(* The configuration options: any sequence of set, get and clear calls.    *)
(* cfg.engine is the engine's state, cfg.latest keeps for each key the      *)
(* value of the most recent successful set that no successful clear         *)
(* followed, cfg.last the last call with its result and the option table    *)
(* before it.                                                              *)
(***************************************************************************)
NoOptions == [k \in CfgKeys |-> NullStr]
Environments == [CfgKeys -> {NullStr} \cup {Str(v) : v \in EnvTexts}]
NoCfgCall ==
    [op |-> "none", args |-> <<>>, status |-> "none", err |-> NoErr,
     value |-> <<>>, before |-> NoOptions]
CfgIdle ==
    [engine |-> [options |-> NoOptions, environ |-> NoOptions, calls |-> <<>>],
     latest |-> NoOptions, last |-> NoCfgCall]

\* no option set yet; the environment is what the process was started with
CfgInit ==
    cfg \in {[CfgIdle EXCEPT !.engine.environ = env] : env \in Environments}

\* the engine at the start of a call
Engine == [cfg.engine EXCEPT !.calls = <<>>]

CfgOutcome(op, args, r) ==
    [op |-> op, args |-> args, status |-> r.status, err |-> r.err,
     value |-> r.value, before |-> cfg.engine.options]

SetConfigOption ==
    /\ \E key \in KeyTexts, value \in ValueTexts :
         LET r == set_config_option(Engine, key, value)
         IN  cfg' = [engine |-> r.e,
                     latest |-> IF r.status = "ok"
                                THEN [cfg.latest EXCEPT ![key] = Str(value)]
                                ELSE cfg.latest,
                     last |-> CfgOutcome("set_config_option", <<key, value>>, r)]
    /\ UNCHANGED <<geoVars, srsVars, txVars>>

GetConfigOption ==
    /\ \E key \in KeyTexts, default \in DefaultTexts :
         LET r == get_config_option(Engine, key, default)
         IN  cfg' = [engine |-> r.e, latest |-> cfg.latest,
                     last |-> CfgOutcome("get_config_option", <<key, default>>, r)]
    /\ UNCHANGED <<geoVars, srsVars, txVars>>

ClearConfigOption ==
    /\ \E key \in KeyTexts :
         LET r == clear_config_option(Engine, key)
         IN  cfg' = [engine |-> r.e,
                     latest |-> IF r.status = "ok"
                                THEN [cfg.latest EXCEPT ![key] = NullStr]
                                ELSE cfg.latest,
                     last |-> CfgOutcome("clear_config_option", <<key>>, r)]
    /\ UNCHANGED <<geoVars, srsVars, txVars>>

CfgNext == SetConfigOption \/ GetConfigOption \/ ClearConfigOption

(***************************************************************************)
(* Reading the log of a finished conversion.                               *)
(***************************************************************************)
GeoDone(op) == geo.op = op /\ geo.status # "pending"

Events(op) == SelectSeq(geo.trace, LAMBDA ev : ev.op = op)
NativeEvents == SelectSeq(geo.trace, LAMBDA ev : ev.native)
EngineFailed == \E i \in 1..Len(geo.trace) : geo.trace[i].native /\ ~geo.trace[i].ok

\* the points assigned so far, from the set_x and set_y calls that succeeded,
\* in call order
RECURSIVE Assigned(_, _)
Assigned(xs, ys) ==
    IF xs = <<>> \/ ys = <<>> THEN <<>>
    ELSE <<Coord(Head(xs).arg[2], Head(ys).arg[2])>> \o Assigned(Tail(xs), Tail(ys))

AssignedPoints ==
    Assigned(SelectSeq(geo.trace, LAMBDA ev : ev.op = "set_x" /\ ev.ok),
             SelectSeq(geo.trace, LAMBDA ev : ev.op = "set_y" /\ ev.ok))

IsPrefix(s, t) == Len(s) <= Len(t) /\ s = SubSeq(t, 1, Len(s))

\* C1's expected sequence for a ring of 3 points or more
ClosedRing(ring) ==
    IF ~CoordEq(ring[1], ring[Len(ring)]) \/ Len(ring) = 3
    THEN ring \o <<ring[1]>>
    ELSE ring

\* C1: a ring of n >= 3 points is built as its n points followed by a copy of
\* the first when the first point differs from the last or n = 3, and as its
\* n points unmodified otherwise: the sequence is declared with that length,
\* is assigned those points in order, and is what the linear-ring constructor
\* receives and the caller gets.
C1_RingClosure ==
    (GeoDone("ring") /\ Len(geo.input) >= 3) =>
        /\ Len(Events("CoordSeq::new")) = 1
        /\ Events("CoordSeq::new")[1].arg = Len(ClosedRing(geo.input))
        /\ IsPrefix(AssignedPoints, ClosedRing(geo.input))
        /\ \A i \in 1..Len(geo.trace) :
               geo.trace[i].op = "create_linear_ring"
                   => geo.trace[i].arg = ClosedRing(geo.input)
        /\ geo.status = "ok" => geo.value.coords = ClosedRing(geo.input)
        /\ ~EngineFailed => geo.status = "ok"

\* the closed 3-point ring [p1, p2, p1] came out as [p1, p2, p1, p1]
C1_Witness ==
    /\ GeoDone("ring") /\ geo.input = <<P0, P1, P0>>
    /\ geo.status = "ok" /\ geo.value.coords = <<P0, P1, P0, P0>>

\* C2: a ring of 1 or 2 points is rejected with InvalidGeometry before
\* anything else happens: in every conversion, the entry of such a ring is
\* directly followed by its InvalidGeometry exit, with no native call between
\* (no sequence allocated, no linear-ring constructor).
C2_ShortRingRejected ==
    /\ geo.status # "pending" =>
          \A i \in 1..Len(geo.trace) :
              (geo.trace[i].op = "ring_enter" /\ Len(geo.trace[i].arg) \in {1, 2})
                  => /\ i < Len(geo.trace)
                     /\ geo.trace[i + 1].op = "ring_exit"
                     /\ ~geo.trace[i + 1].ok
                     /\ geo.trace[i + 1].arg = "InvalidGeometry"
    /\ (GeoDone("ring") /\ Len(geo.input) \in {1, 2}) =>
          /\ geo.status = "err" /\ geo.err = "InvalidGeometry"
          /\ NativeEvents = <<>>

\* a 2-point ring whose closure would reach 3 points was rejected
C2_Witness ==
    /\ GeoDone("ring") /\ geo.input = <<P0, P1>>
    /\ geo.status = "err" /\ geo.err = "InvalidGeometry"

\* C3: a ring of 0 points converts to a sequence of size 0: the conversion
\* raises no error of its own (it fails only when the engine fails a call),
\* appends no closing point and never indexes the first point.
C3_EmptyRing ==
    (GeoDone("ring") /\ geo.input = <<>>) =>
        /\ ~geo.indexed0
        /\ Events("set_x") = <<>> /\ Events("set_y") = <<>>
        /\ Len(Events("CoordSeq::new")) = 1
        /\ Events("CoordSeq::new")[1].arg = 0
        /\ geo.status # "ok" => EngineFailed
        /\ geo.status = "ok" => geo.value.coords = <<>>

C3_Witness ==
    /\ GeoDone("ring") /\ geo.input = <<>>
    /\ geo.status = "ok" /\ geo.value.coords = <<>>
    /\ Len(Events("create_linear_ring")) = 1

\* the rings of a polygon, in conversion order
RingsOf(poly) == <<poly.exterior>> \o poly.interiors

\* the argument of every event of the sequence, in order
ArgsOf(evs) == [i \in 1..Len(evs) |-> evs[i].arg]

\* the native ring made from a coordinate sequence
RingGeom(seq) == [kind |-> "LinearRing", coords |-> seq]

\* C4: a polygon conversion converts the exterior ring first and then the
\* interior rings in order, one at a time; the first ring conversion that
\* fails ends it: its failure is the result, no later ring is converted and
\* the polygon constructor is not called; when all rings succeed the
\* constructor is called once with the exterior and one native ring per
\* interior, in input order.
C4_PolygonFailFast ==
    GeoDone("polygon") =>
        LET enters == Events("ring_enter")
            exits == Events("ring_exit")
            made == Events("create_linear_ring")
            ctor == Events("create_polygon")
            all == RingsOf(geo.input)
        IN  /\ Len(enters) = Len(exits) /\ Len(enters) >= 1
            /\ IsPrefix(ArgsOf(enters), all)
            /\ \A k \in 1..(Len(exits) - 1) : exits[k].ok
            /\ ~exits[Len(exits)].ok =>
                   /\ geo.status # "ok"
                   /\ geo.err = exits[Len(exits)].arg
                   /\ ctor = <<>>
            /\ exits[Len(exits)].ok =>
                   /\ Len(enters) = Len(all)
                   /\ Len(made) = Len(all)
                   /\ Len(ctor) = 1
                   /\ ctor[1].arg[1] = RingGeom(made[1].arg)
                   /\ ctor[1].arg[2] =
                          [k \in 1..Len(geo.input.interiors) |->
                              RingGeom(made[k + 1].arg)]

\* a polygon whose second interior ring is too short: the exterior and the
\* first interior were converted, the failure is the result
C4_Witness ==
    /\ GeoDone("polygon")
    /\ Len(geo.input.interiors) = 2
    /\ Len(Events("create_linear_ring")) = 2
    /\ Len(Events("ring_exit")) = 3
    /\ geo.status = "err" /\ geo.err = "InvalidGeometry"

\* C5: a multipolygon conversion converts its members in order and ends at
\* the first member that fails, with that failure as its result, converting
\* no later member and not calling the multipolygon constructor; so a
\* multipolygon with a member whose exterior ring has 1 or 2 points fails.
C5_MultiPolygonFailFast ==
    GeoDone("multipolygon") =>
        LET enters == Events("polygon_enter")
            exits == Events("polygon_exit")
            ctor == Events("create_multipolygon")
        IN  /\ Len(enters) = Len(exits)
            /\ IsPrefix(ArgsOf(enters), geo.input)
            /\ \A k \in 1..(Len(exits) - 1) : exits[k].ok
            /\ (exits # <<>> /\ ~exits[Len(exits)].ok) =>
                   /\ geo.status # "ok"
                   /\ geo.err = exits[Len(exits)].arg
                   /\ ctor = <<>>
            /\ (exits = <<>> \/ exits[Len(exits)].ok) =>
                   /\ Len(enters) = Len(geo.input)
                   /\ Len(ctor) = 1
                   /\ Len(ctor[1].arg) = Len(geo.input)
            /\ (\E k \in 1..Len(geo.input) :
                    Len(geo.input[k].exterior) \in {1, 2}) => geo.status # "ok"

\* a second member with a 2-point exterior ring fails the multipolygon after
\* the first member was converted
C5_Witness ==
    /\ GeoDone("multipolygon")
    /\ Len(geo.input) = 2
    /\ Len(geo.input[2].exterior) = 2
    /\ Len(Events("create_polygon")) = 1 /\ Events("create_polygon")[1].ok
    /\ geo.status = "err" /\ geo.err = "InvalidGeometry"
    /\ Events("create_multipolygon") = <<>>

(***************************************************************************)
(* Claims on transform_coords and on the construction of transformers and  *)
(* spatial references.                                                     *)
(***************************************************************************)
TxDone == tx.status \in {"ok", "err", "panic"}
NativeFailed == TxDone /\ tx.call.made /\ ~tx.nativeOk

\* C6: transform_coords returns Ok exactly when the native transform was
\* called and reported success; after a native failure it returns an
\* InvalidCoordinateRange error carrying the transformer's from and to.
C6_OkIffNativeSuccess ==
    TxDone =>
        /\ (tx.status = "ok") <=> (tx.call.made /\ tx.nativeOk)
        /\ NativeFailed =>
               /\ tx.status = "err"
               /\ tx.err.kind = "InvalidCoordinateRange"
               /\ tx.err.from = tx.t.from
               /\ tx.err.to = tx.t.to

\* a native failure that left no message, between two different systems
C6_Witness ==
    /\ NativeFailed /\ tx.drained = <<>> /\ tx.t.from # tx.t.to
    /\ tx.status = "err" /\ tx.err.kind = "InvalidCoordinateRange"

\* C7: on a failed transform the message is absent exactly when the drained
\* message holds nothing but whitespace, and is otherwise the drained
\* message itself, untrimmed.
C7_MessageAbsentIffBlank ==
    NativeFailed =>
        /\ tx.err.kind = "InvalidCoordinateRange"
        /\ (~tx.err.msg.some) <=>
               (\A i \in 1..Len(tx.drained) : IsWhitespace(tx.drained[i]))
        /\ tx.err.msg.some => tx.err.msg.v = tx.drained

\* a drained message of whitespace only gave no message
C7_Witness ==
    /\ NativeFailed /\ tx.drained = <<" ", "\n">>
    /\ tx.err.kind = "InvalidCoordinateRange" /\ ~tx.err.msg.some

\* C8: the native transform is given a count that none of the three buffers
\* is shorter than.
C8_CountWithinBuffers ==
    (TxDone /\ tx.call.made) =>
        /\ tx.call.count <= tx.call.x
        /\ tx.call.count <= tx.call.y
        /\ tx.call.count <= tx.call.z

\* the identity C9 expects of the reference system at pointer p: its
\* authority as name:code when it has both, else its proj4 export
HasAuthority(p) ==
    p # NullPtr /\ heap[p].live /\ ~heap[p].def.name.null /\ ~heap[p].def.code.null
HasProj4(p) == p # NullPtr /\ heap[p].live /\ ~heap[p].def.proj4.null
HasIdentity(p) == HasAuthority(p) \/ HasProj4(p)
ExpectedIdentity(p) ==
    IF HasAuthority(p)
    THEN heap[p].def.name.s \o <<":">> \o heap[p].def.code.s
    ELSE heap[p].def.proj4.s

\* the transformers that wrap the native object allocated last (the one the
\* last call created, when it created one)
NewestCts == {i \in LiveCts : cts[i].inner = next - 1}

\* C9: CoordTransform::new fails with the null-pointer error of
\* OCTNewCoordinateTransformation when the engine returns null; otherwise
\* from and to are the authority of the source and of the destination, or
\* their proj4 export where the authority lookup fails, and when neither is
\* available for one of them the export's error is returned and no
\* transformer is constructed.
C9_TransformCreation ==
    last.op = "CoordTransform::new" =>
        LET src == last.args[1]
            dst == last.args[2]
        IN  /\ last.allocd = 0 =>
                   /\ last.status = "err"
                   /\ last.err = NullPointer("OCTNewCoordinateTransformation")
            /\ (last.allocd = 1 /\ HasIdentity(src) /\ HasIdentity(dst)) =>
                   /\ last.status = "ok"
                   /\ \E i \in NewestCts :
                          /\ cts[i].from = ExpectedIdentity(src)
                          /\ cts[i].to = ExpectedIdentity(dst)
            /\ (last.allocd = 1 /\ ~(HasIdentity(src) /\ HasIdentity(dst))) =>
                   /\ last.status = "err"
                   /\ last.err = OgrError(OGRERR_FAILURE, "OSRExportToProj4")
            /\ (last.allocd = 1 /\ last.status = "err") => NewestCts = {}
            /\ last.allocd \in {0, 1}

\* a source without authority gave its proj4 export as identity, next to a
\* destination with an authority
C9_Witness ==
    /\ last.op = "CoordTransform::new" /\ last.status = "ok"
    /\ ~HasAuthority(last.args[1]) /\ HasAuthority(last.args[2])
    /\ \E i \in NewestCts :
           /\ cts[i].from = <<"+", "u">>
           /\ cts[i].to = S_EPSG \o <<":", "4", "3", "2", "6">>

\* C10: every SpatialRef the calling code holds has a non-null pointer to a
\* live native reference system.
C10_NoNullHandle ==
    \A i \in LiveRefs :
        /\ refs[i].ptr # NullPtr
        /\ heap[refs[i].ptr].kind = "srs"
        /\ heap[refs[i].ptr].live

(***************************************************************************)
(* Claims on the ownership of native objects.                              *)
(***************************************************************************)
LiveObjs == {p \in 1..MaxObjs : heap[p].live}
OwnedObjs ==
    ({refs[i].ptr : i \in LiveRefs} \cup {cts[i].inner : i \in LiveCts}) \ {NullPtr}
\* the native objects the last call allocated
AllocatedByLast == (next - last.allocd)..(next - 1)
Constructions ==
    {"from_definition", "from_wkt", "from_epsg", "from_proj4", "from_esri",
     "CoordTransform::new"}

\* C11: when a construction returns an error, every native object it
\* allocated has been released, and the live native objects are exactly
\* those owned by live SpatialRef and CoordTransform values.
C11_NoLeakOnError ==
    (last.op \in Constructions /\ last.status = "err") =>
        /\ \A p \in AllocatedByLast : ~heap[p].live
        /\ LiveObjs = OwnedObjs

\* the live wrapper values that hold pointer p
Owners(p) ==
    {<<"SpatialRef", i>> : i \in {j \in LiveRefs : refs[j].ptr = p}}
    \cup {<<"CoordTransform", i>> : i \in {j \in LiveCts : cts[j].inner = p}}
AllocatedObjs == 1..(next - 1)

\* C12: every native object that was allocated and not yet released is held
\* by exactly one live wrapper; an object is released once, when its wrapper
\* is dropped, and no live wrapper holds a released object (so none is
\* passed to a native call after its release); no two live wrappers hold
\* the same native object.
C12_SingleOwnerSingleRelease ==
    \A p \in AllocatedObjs :
        /\ heap[p].live => Cardinality(Owners(p)) = 1
        /\ ~heap[p].live => (heap[p].releases = 1 /\ Owners(p) = {})
        /\ Cardinality(Owners(p)) <= 1

(***************************************************************************)
(* Claims on clones and on the axis-mapping strategy.                      *)
(***************************************************************************)
\* C13: the clone of a valid handle owns a native object of its own and
\* compares equal to the handle; setting the axis-mapping strategy of one
\* handle leaves what every other handle reports unchanged, and dropping
\* one handle leaves every other valid handle valid and unchanged.
C13_CloneIndependent ==
    /\ last.op = "clone" =>
           LET h == last.args[1]
               c == last.value[1]
           IN  Valid(h) =>
                   /\ Valid(c)
                   /\ refs[c].ptr # refs[h].ptr
                   /\ Owners(refs[c].ptr) = {<<"SpatialRef", c>>}
                   /\ SpatialRef_eq(W, refs[h].ptr, refs[c].ptr)
    /\ last.op \in {"set_axis_mapping_strategy", "drop"} =>
           \A j \in DOMAIN last.value :
               Shown(last.value[j]).valid =>
                   (Valid(j) /\ Observable(j) = Shown(last.value[j]).observable)

\* the handle the last factory call returned, and the strategy it reports
ReturnedRef == last.value[1]
ReturnedStrategy ==
    SpatialRef_get_axis_mapping_strategy(W, refs[ReturnedRef].ptr)
SucceededAs(ops) == last.op \in ops /\ last.status = "ok"

\* C14: a handle returned by from_wkt, from_epsg, from_proj4 or from_esri
\* reports TraditionalGisOrder; a handle returned by from_definition or new
\* reports the strategy the engine gives a new object.
C14_FactoryAxisOrder ==
    /\ SucceededAs({"from_wkt", "from_epsg", "from_proj4", "from_esri"}) =>
           ReturnedStrategy = TraditionalGisOrder
    /\ SucceededAs({"from_definition", "new"}) =>
           ReturnedStrategy = SrsObj(EmptyDef).axis

\* from_esri returned a handle in traditional order
C14_Witness ==
    /\ SucceededAs({"from_esri"})
    /\ ReturnedStrategy = TraditionalGisOrder
    /\ ReturnedStrategy # SrsObj(EmptyDef).axis

\* C15: after set_axis_mapping_strategy(s) the handle reports s, whatever it
\* reported before; get_axis_mapping_strategy returns without error and the
\* handle reports afterwards what the call returned.
C15_SetThenGet ==
    /\ last.op = "set_axis_mapping_strategy" =>
           /\ last.status = "ok"
           /\ SpatialRef_get_axis_mapping_strategy(W, refs[last.args[1]].ptr)
                  = last.args[2]
    /\ last.op = "get_axis_mapping_strategy" =>
           /\ last.status = "ok"
           /\ SpatialRef_get_axis_mapping_strategy(W, refs[last.args[1]].ptr)
                  = last.value

\* C16: a handle returned by from_epsg reports AuthorityCompliant.
C16_FromEpsgAuthorityCompliant ==
    SucceededAs({"from_epsg"}) => ReturnedStrategy = AuthorityCompliant

(***************************************************************************)
(* Claims on the authority queries.                                        *)
(***************************************************************************)
\* C17: when from_epsg(c) succeeds, auth_code() on the returned handle
\* succeeds with c: the engine imported the code c itself.
C17_EpsgRoundTrip ==
    SucceededAs({"from_epsg"}) =>
        LET code == SpatialRef_auth_code(W, refs[ReturnedRef].ptr)
        IN  /\ code.status = "ok"
            /\ code.value >= 0
            /\ U32Of(code.value) = last.args[1]

\* from_epsg(32632) returned a handle whose auth_code is 32632
C17_Witness ==
    /\ SucceededAs({"from_epsg"})
    /\ last.args[1] = U32Of(32632)
    /\ SpatialRef_auth_code(W, refs[ReturnedRef].ptr).value = 32632

\* the handle the last query was made on, its native object, and what the
\* handle showed before the query
Asked == last.args[1]
AskedPtr == refs[Asked].ptr
Before == Shown(last.frame[Asked])
AuthorityQueries == {"auth_name", "auth_code", "authority"}
\* the native object carries an authority name, an authority code
HasName(p) == p # NullPtr /\ heap[p].live /\ ~heap[p].def.name.null
HasCode(p) == p # NullPtr /\ heap[p].live /\ ~heap[p].def.code.null
\* a text that is a decimal integer, with or without sign
IntegerText(t) ==
    LET ds == IF t # <<>> /\ t[1] \in {"+", "-"} THEN Tail(t) ELSE t
    IN  ds # <<>> /\ \A k \in 1..Len(ds) : \E d \in 1..10 : Digits[d] = ds[k]

\* C18: on a handle without authority tag auth_name, auth_code and authority
\* return an error; auth_code returns an error where the code is not an
\* integer; the handle shows after each of these queries what it showed
\* before.
C18_NoAuthorityIsError ==
    last.op \in AuthorityQueries =>
        /\ (~HasName(AskedPtr) /\ ~HasCode(AskedPtr)) => last.status = "err"
        /\ (last.op = "auth_code" /\ HasCode(AskedPtr)
               /\ ~IntegerText(heap[AskedPtr].def.code.s)) => last.status = "err"
        /\ last.status \in {"ok", "err"}
        /\ Seen(Asked) = Before

\* auth_code failed on a valid handle that carries no authority tag
C18_Witness ==
    /\ last.op = "auth_code" /\ last.status = "err"
    /\ Valid(Asked) /\ ~HasName(AskedPtr) /\ ~HasCode(AskedPtr)
    /\ last.err = NullPointer("OSRGetAuthorityCode")

\* C19 as stated: authority succeeds exactly when auth_name and auth_code
\* both succeed, with name:code of their results, and fails when either fails.
C19_AuthorityIffNameAndCode ==
    last.op = "authority" =>
        LET name == SpatialRef_auth_name(W, AskedPtr)
            code == SpatialRef_auth_code(W, AskedPtr)
        IN  /\ (last.status = "ok") <=> (name.status = "ok" /\ code.status = "ok")
            /\ last.status = "ok" =>
                   last.value = name.value \o <<":">> \o heap[AskedPtr].def.code.s

\* C19 amended: authority succeeds exactly when the engine reports an
\* authority name and an authority code text, and then returns the name, a
\* colon and the code text as reported, integer or not; it fails whenever
\* auth_name fails or no code text is reported, and succeeds wherever
\* auth_name and auth_code both succeed on a name that is valid UTF-8.
C19_AuthorityIffNameAndCodeText ==
    last.op = "authority" =>
        LET name == SpatialRef_auth_name(W, AskedPtr)
        IN  /\ (last.status = "ok") <=>
                   /\ HasName(AskedPtr) /\ HasCode(AskedPtr)
                   /\ to_str(W, heap[AskedPtr].def.name).status = "ok"
                   /\ to_str(W, heap[AskedPtr].def.code).status = "ok"
            /\ name.status = "err" => last.status = "err"
            /\ ~HasCode(AskedPtr) => last.status = "err"
            /\ (/\ name.status = "ok"
                /\ SpatialRef_auth_code(W, AskedPtr).status = "ok"
                /\ to_str(W, heap[AskedPtr].def.name).status = "ok")
                   => last.status = "ok"
            /\ last.status = "ok" =>
                   last.value = name.value \o <<":">> \o heap[AskedPtr].def.code.s

\* authority returned EPSG:4x on a handle whose auth_code fails
C19_Witness ==
    /\ last.op = "authority" /\ last.status = "ok"
    /\ last.value = S_EPSG \o <<":", "4", "x">>
    /\ SpatialRef_auth_code(W, AskedPtr).status = "err"

\* C20: after a successful auto_identify_epsg, auth_code succeeds with the
\* code the engine identified; a failed one returns the OgrError of
\* OSRAutoIdentifyEPSG with the status the engine answered (unsupported for
\* a live system that matches no code, failure for a handle without a live
\* system), and the handle shows what it showed before.
C20_AutoIdentify ==
    last.op = "auto_identify_epsg" =>
        /\ last.status = "ok" =>
               /\ SpatialRef_auth_code(W, AskedPtr).status = "ok"
               /\ SpatialRef_auth_code(W, AskedPtr).value = heap[AskedPtr].def.ident
               /\ heap[AskedPtr].def.ident # 0
        /\ last.status # "ok" =>
               /\ last.status = "err"
               /\ last.err = OgrError(IF Valid(Asked) THEN OGRERR_UNSUPPORTED_SRS
                                       ELSE OGRERR_FAILURE, "OSRAutoIdentifyEPSG")
               /\ Valid(Asked) => heap[AskedPtr].def.ident = 0
               /\ Seen(Asked) = Before

\* a handle whose auth_code failed was identified as 32632
C20_Witness ==
    /\ last.op = "auto_identify_epsg" /\ last.status = "ok"
    /\ Before.valid /\ Before.observable.code = <<>>
    /\ SpatialRef_auth_code(W, AskedPtr).value = 32632

(***************************************************************************)
(* Claims on what an operation leaves alone.                               *)
(***************************************************************************)
\* the operations that take the SpatialRef by shared reference
SharedOps ==
    {"to_wkt", "to_pretty_wkt", "to_xml", "to_proj4", "morph_to_esri",
     "auth_name", "auth_code", "authority", "eq", "clone",
     "get_axis_mapping_strategy", "CoordTransform::new"}

\* C27: after an operation that takes the SpatialRef by shared reference,
\* every handle that was in scope is as valid as before and shows the
\* definition (its exports and authority) and the axis-mapping strategy it
\* showed before.
C27_SharedReferenceLeavesHandle ==
    last.op \in SharedOps =>
        \A j \in DOMAIN last.frame :
            j \in LiveRefs /\ Seen(j) = Shown(last.frame[j])

(***************************************************************************)
(* Claims on the native objects of a conversion.                           *)
(***************************************************************************)
\* the native objects the conversion created: the native calls that made a
\* sequence or a geometry
Makers ==
    {"CoordSeq::new", "create_point", "create_multipoint", "create_line_string",
     "create_linear_ring", "create_polygon", "create_multipolygon"}
NativeCallNo(i) == Cardinality({j \in 1..i : geo.trace[j].native})
Created ==
    {NativeCallNo(i) : i \in {j \in 1..Len(geo.trace) :
         geo.trace[j].native /\ geo.trace[j].ok /\ geo.trace[j].op \in Makers}}
TimesReleased(id) ==
    Cardinality({k \in 1..Len(geo.released) : geo.released[k] = id})

\* C24: a conversion that returned an error holds no native object, returns
\* none, and every native object it created was released exactly once.
C24_NothingLiveAfterError ==
    geo.status = "err" =>
        /\ geo.owned = <<>>
        /\ geo.value = <<>>
        /\ \A id \in Created : TimesReleased(id) = 1
        /\ \A k \in 1..Len(geo.released) : geo.released[k] \in Created

\* a polygon whose second interior ring was refused, after the exterior ring
\* and the first interior ring were converted
C24_Witness ==
    /\ geo.op = "polygon" /\ geo.status = "err" /\ geo.err = "InvalidGeometry"
    /\ Len(geo.input.interiors) = 2
    /\ Cardinality(Created) = 4
    /\ \A id \in Created : TimesReleased(id) = 1

\* the conversions that build one sequence, and the coordinates their
\* iterator yields
SeqOps == {"point", "linestring", "ring"}
Yielded ==
    IF geo.op = "point" THEN <<geo.input>>
    ELSE IF geo.op = "ring" /\ geo.input # <<>> THEN ClosedRing(geo.input)
    ELSE geo.input
Constructors ==
    SelectSeq(geo.trace, LAMBDA ev :
        ev.op \in {"create_point", "create_line_string", "create_linear_ring"})
Rejected(evs) == \E k \in 1..Len(evs) : ~evs[k].ok

\* C25: in a point, line-string or ring conversion the sequence is declared
\* with the number of coordinates the iterator yields; x and y of index
\* 0, 1, ... are assigned once each, in that order, with the coordinates in
\* input order and never at an index outside the declared length; the native
\* constructor receives the sequence only when every index was assigned; a
\* rejected assignment is the last one made and its error is the result.
C25_DeclaredLengthAssignedInOrder ==
    (geo.op \in SeqOps /\ geo.status # "pending"
       /\ Events("CoordSeq::new") # <<>> /\ Events("CoordSeq::new")[1].ok) =>
        LET len == Events("CoordSeq::new")[1].arg
            sx == Events("set_x")
            sy == Events("set_y")
        IN  /\ Len(Events("CoordSeq::new")) = 1
            /\ len = Len(Yielded)
            /\ Len(sx) <= len /\ Len(sy) <= Len(sx) /\ Len(sx) <= Len(sy) + 1
            /\ \A k \in 1..Len(sx) : sx[k].arg = <<k - 1, Yielded[k].x>>
            /\ \A k \in 1..Len(sy) : sy[k].arg = <<k - 1, Yielded[k].y>>
            /\ Constructors # <<>> =>
                   /\ Len(sx) = len /\ Len(sy) = len
                   /\ ~Rejected(sx) /\ ~Rejected(sy)
                   /\ Constructors[1].arg = Yielded
            /\ (Rejected(sx) \/ Rejected(sy)) =>
                   /\ ~NativeEvents[Len(NativeEvents)].ok
                   /\ \A k \in 1..(Len(NativeEvents) - 1) : NativeEvents[k].ok
                   /\ geo.status = "err" /\ geo.err = "GeosError"
                   /\ Constructors = <<>>

\* an unclosed ring of 3 points whose closing point was refused by the engine
\* after the 3 points were assigned
C25_Witness ==
    /\ GeoDone("ring") /\ geo.input = <<P0, P1, P2>>
    /\ Events("CoordSeq::new")[1].arg = 4
    /\ Len(Events("set_x")) = 4 /\ Len(Events("set_y")) = 3
    /\ geo.status = "err" /\ geo.err = "GeosError"

\* C26: the sequence the ring conversion hands to the linear-ring constructor
\* is empty, or has 4 points or more of which the first equals the last.
C26_RingSequenceClosed ==
    GeoDone("ring") =>
        \A k \in 1..Len(Events("create_linear_ring")) :
            LET seq == Events("create_linear_ring")[k].arg
            IN  \/ seq = <<>>
                \/ Len(seq) >= 4 /\ CoordEq(seq[1], seq[Len(seq)])

(***************************************************************************)
(* Claims on the whole core.                                               *)
(***************************************************************************)
\* C23: no conversion and no transform entry point ends in a panic: every
\* failure is returned as the error of the operation.
C23_FailuresReturnedNotPanicked ==
    /\ geo.status # "panic"
    /\ tx.status # "panic"
    /\ tx.outer.status # "panic"

(***************************************************************************)
(* Claims on the configuration options.                                    *)
(***************************************************************************)
\* what get_config_option answers for a key and a default, in a given engine
Answer(c, k, d) == get_config_option([c EXCEPT !.calls = <<>>], k, d).value
NulFree(args) == \A a \in 1..Len(args) : ~HasNul(args[a])
CfgChanges == {"set_config_option", "clear_config_option"}

\* C21 as stated: get_config_option(k, d) with NUL-free arguments succeeds
\* with the value of the most recent successful set on k that no clear
\* followed, and with d otherwise; set or clear on one key leaves the answer
\* for every other key as it was.
C21_GetLatestSetOrDefault ==
    /\ (cfg.last.op = "get_config_option" /\ NulFree(cfg.last.args)) =>
           /\ cfg.last.status = "ok"
           /\ cfg.last.value =
                  IF ~cfg.latest[cfg.last.args[1]].null
                  THEN cfg.latest[cfg.last.args[1]].s
                  ELSE cfg.last.args[2]
    /\ cfg.last.op \in CfgChanges =>
           \A k \in CfgKeys \ {cfg.last.args[1]} : \A d \in DefaultTexts \ {V_NUL} :
               Answer(cfg.engine, k, d)
                 = Answer([cfg.engine EXCEPT !.options = cfg.last.before], k, d)

\* C21 amended: get_config_option(k, d) with NUL-free arguments succeeds with
\* the value of the most recent successful set on k that no clear followed;
\* otherwise with the value of the environment variable k when the process
\* environment defines it, and with d when it does not; set or clear on one
\* key leaves the answer for every other key as it was.
C21_GetLatestSetOrEnvironmentOrDefault ==
    /\ (cfg.last.op = "get_config_option" /\ NulFree(cfg.last.args)) =>
           /\ cfg.last.status = "ok"
           /\ cfg.last.value =
                  IF ~cfg.latest[cfg.last.args[1]].null
                  THEN cfg.latest[cfg.last.args[1]].s
                  ELSE IF ~cfg.engine.environ[cfg.last.args[1]].null
                  THEN cfg.engine.environ[cfg.last.args[1]].s
                  ELSE cfg.last.args[2]
    /\ cfg.last.op \in CfgChanges =>
           \A k \in CfgKeys \ {cfg.last.args[1]} : \A d \in DefaultTexts \ {V_NUL} :
               Answer(cfg.engine, k, d)
                 = Answer([cfg.engine EXCEPT !.options = cfg.last.before], k, d)

\* a key that was set and then cleared, in a process whose environment
\* defines it, answers the value of the environment and not the default
C21_Witness ==
    /\ cfg.last.op = "get_config_option" /\ cfg.last.status = "ok"
    /\ cfg.last.args = <<K_CACHEMAX, V_DEFAULT>>
    /\ cfg.engine.environ[K_CACHEMAX] = Str(V_128)
    /\ cfg.latest[K_CACHEMAX].null /\ cfg.latest[K_TEST] = Str(V_256)
    /\ cfg.last.value = V_128

\* C22: set_config_option with a NUL in the key or in the value, and
\* clear_config_option with a NUL in the key, return an error, make no native
\* call and leave every option as it was.
C22_NulRejectedStoreUnchanged ==
    (cfg.last.op \in CfgChanges /\ ~NulFree(cfg.last.args)) =>
        /\ cfg.last.status = "err" /\ cfg.last.err = NulError
        /\ cfg.engine.calls = <<>>
        /\ cfg.engine.options = cfg.last.before
        /\ \A k \in CfgKeys : \A d \in DefaultTexts \ {V_NUL} :
               Answer(cfg.engine, k, d)
                 = Answer([cfg.engine EXCEPT !.options = cfg.last.before], k, d)

\* a set with a NUL in the value was refused while the key was set
C22_Witness ==
    /\ cfg.last.op = "set_config_option" /\ cfg.last.status = "err"
    /\ cfg.last.args = <<K_TEST, V_NUL>>
    /\ cfg.engine.options[K_TEST] = Str(V_256)

(***************************************************************************)
(* Specifications: the geometry conversions, the spatial-reference          *)
(* lifecycle, the coordinate transform and the configuration options.      *)
(***************************************************************************)
InitGeo == GeoInit /\ SrsInit /\ tx = TxIdle /\ cfg = CfgIdle
SpecGeo == InitGeo /\ [][GeoNext]_vars

InitSrs == geo = GeoIdle /\ SrsInit /\ tx = TxIdle /\ cfg = CfgIdle
SpecSrs == InitSrs /\ [][SrsNext]_vars

InitTx == geo = GeoIdle /\ SrsInit /\ TxInit /\ cfg = CfgIdle
SpecTx == InitTx /\ [][TxNext]_vars

InitCfg == geo = GeoIdle /\ SrsInit /\ tx = TxIdle /\ CfgInit
SpecCfg == InitCfg /\ [][CfgNext]_vars

Init == GeoInit /\ SrsInit /\ TxInit /\ CfgInit
Next == GeoNext \/ SrsNext \/ TxNext \/ CfgNext
Spec == Init /\ [][Next]_vars
====
